---- MODULE Spec2Model ----
(***************************************************************************)
(* StackAnalyzer of libopenage/error/stackanalyzer.cpp: capture of the     *)
(* call stack (analyze), resolution of the captured addresses              *)
(* (get_symbols) and trimming against the current stack                    *)
(* (trim_to_current_stack_frame), for the three build-time backends.       *)
(***************************************************************************)
EXTENDS Integers, Sequences, FiniteSets, TLC

VARIABLES
    backend,      \* build configuration: "libbacktrace" | "windows" | "execinfo"
    callstack,    \* return addresses of the running function and its callers, most recent first
    stack_addrs,  \* StackAnalyzer::stack_addrs of the receiver
    fault,        \* "none", or the outcome of undefined behaviour: "abort" | "corrupt"
    op,           \* the operation that produced this state
    pre,          \* stack_addrs of the receiver before that operation
    cur,          \* the fresh capture `current` of the last trim, as captured
    raw,          \* the frames the platform's unwinder walked in the last capture
    buffer,       \* execinfo analyze(): the local `buffer`, while the capture is in progress
    calls         \* the records delivered by the last get_symbols calls, most recent first

vars == <<backend, callstack, stack_addrs, fault, op, pre, cur, raw, buffer, calls>>

----------------------------------------------------------------------------
(* Bounds of the model *)

MaxDepth == 4          \* depth of the modelled call stack (Spec)
MaxStack == 4          \* length of stack_addrs before a capture may append to it (Spec)
MaxUnwindDepth == 130  \* depth of the call stack in SpecDeep
MaxResolveLen == 3     \* length of the captured stack in SpecResolve

(* Program constants *)

skip_entry_frames == 1
base_skip_frames == 1
BufferSize == 64
nullptr == 0
AnalyzePC == -1   \* the frame of StackAnalyzer::analyze itself
TrimPC == -2      \* the frame of StackAnalyzer::trim_to_current_stack_frame
OtherSitePC == -3 \* the caller's frame, at another return address than the captured one

Backends == {"libbacktrace", "windows", "execinfo"}
UserAddr == {1, 2}

----------------------------------------------------------------------------
(* Helpers *)

Min(a, b) == IF a < b THEN a ELSE b
Max(a, b) == IF a < b THEN b ELSE a
Last(s) == s[Len(s)]
PopBack(s) == SubSeq(s, 1, Len(s) - 1)
Reverse(s) == [i \in 1..Len(s) |-> s[Len(s) + 1 - i]]

\* std::vector<void *>::resize(n): truncate, or pad with null pointers
Resize(v, n) == [i \in 1..n |-> IF i <= Len(v) THEN v[i] ELSE nullptr]

\* std::vector<void *> buffer{64}: 64 value-initialised (null) elements
NewBuffer == Resize(<<>>, BufferSize)

----------------------------------------------------------------------------
(* Capture: libbacktrace backend *)

backtrace_simple_callback(addrs, pc) == Append(addrs, pc)

\* backtrace_simple(state, skip, callback, ...): the callback is called, most recent
\* frame first, for every frame the unwinder walks after the first `skip` ones (it
\* returns 0: go on). Frames lo..hi of walk, in order; the range is split in halves
\* and the left half's result is evaluated (Len) before the right half starts, which
\* keeps TLC's evaluation shallow on deep stacks.
RECURSIVE WalkFrames(_, _, _, _)
WalkFrames(addrs, walk, lo, hi) ==
    IF lo > hi THEN addrs
    ELSE IF lo = hi THEN backtrace_simple_callback(addrs, walk[lo])
    ELSE LET mid == (lo + hi) \div 2
             left == WalkFrames(addrs, walk, lo, mid)
         IN  IF Len(left) >= 0 THEN WalkFrames(left, walk, mid + 1, hi) ELSE left

backtrace_simple(addrs, walk, skip) == WalkFrames(addrs, walk, skip + 1, Len(walk))

AnalyzeBacktrace(addrs, walk) ==
    [addrs |-> backtrace_simple(addrs, walk, base_skip_frames), ub |-> FALSE]

(* Capture: Windows backend *)

\* RtlCaptureStackBackTrace(FramesToSkip, FramesToCapture, BackTrace, NULL)
RtlCaptureStackBackTrace(skip, buf, walk) ==
    LET count == Min(Len(buf), Max(0, Len(walk) - skip))
    IN  [count |-> count,
         buffer |-> [i \in 1..Len(buf) |-> IF i <= count THEN walk[skip + i] ELSE buf[i]]]

AnalyzeWindows(addrs, walk) ==
    LET r == RtlCaptureStackBackTrace(base_skip_frames, NewBuffer, walk)
        b == IF r.count < Len(r.buffer) THEN Resize(r.buffer, r.count) ELSE r.buffer
    IN  [addrs |-> b, ub |-> FALSE]

(* Capture: execinfo backend *)

\* backtrace(buffer, size): fills at most size entries, returns how many
Backtrace(buf, walk) ==
    LET n == Min(Len(buf), Len(walk))
    IN  [elements |-> n,
         buffer |-> [i \in 1..Len(buf) |-> IF i <= n THEN walk[i] ELSE buf[i]]]

\* one iteration of `while (true)`
GrowStep(buf, walk) ==
    LET r == Backtrace(buf, walk)
    IN  IF r.elements < Len(buf)
        THEN [done |-> TRUE, buffer |-> Resize(r.buffer, r.elements)]
        ELSE [done |-> FALSE, buffer |-> Resize(r.buffer, Len(buf) * 2)]

RECURSIVE GrowLoop(_, _)
GrowLoop(buf, walk) ==
    LET s == GrowStep(buf, walk)
    IN  IF s.done THEN s.buffer ELSE GrowLoop(s.buffer, walk)

\* for (void *element : buffer) { if (idx >= base_skip_frames) push_back; idx += 1; }
\* Elements lo..hi of buffer in order (idx = position - 1), split like WalkFrames.
RECURSIVE StoreLoop(_, _, _, _)
StoreLoop(addrs, buf, lo, hi) ==
    IF lo > hi THEN addrs
    ELSE IF lo = hi
         THEN (IF lo - 1 >= base_skip_frames THEN Append(addrs, buf[lo]) ELSE addrs)
    ELSE LET mid == (lo + hi) \div 2
             left == StoreLoop(addrs, buf, lo, mid)
         IN  IF Len(left) >= 0 THEN StoreLoop(left, buf, mid + 1, hi) ELSE left

\* for (i = 0; i < skip_entry_frames; i++) pop_back();  pop_back() of an empty
\* vector is undefined behaviour
RECURSIVE PopEntryFrames(_, _)
PopEntryFrames(addrs, i) ==
    IF i < skip_entry_frames
    THEN IF addrs = <<>> THEN [addrs |-> <<>>, ub |-> TRUE]
         ELSE PopEntryFrames(PopBack(addrs), i + 1)
    ELSE [addrs |-> addrs, ub |-> FALSE]

StoreResult(addrs, buf) == PopEntryFrames(StoreLoop(addrs, buf, 1, Len(buf)), 0)

AnalyzeExecinfo(addrs, walk) == StoreResult(addrs, GrowLoop(NewBuffer, walk))

\* StackAnalyzer::analyze() of backend bk on an instance holding addrs, when the
\* unwinder walks the frames `walk`
AnalyzeOn(bk, addrs, walk) ==
    CASE bk = "libbacktrace" -> AnalyzeBacktrace(addrs, walk)
      [] bk = "windows" -> AnalyzeWindows(addrs, walk)
      [] bk = "execinfo" -> AnalyzeExecinfo(addrs, walk)

\* what a vector reads as after the undefined pop_back: anything
Garbage(walk) == {<<>>} \cup {<<a>> : a \in {nullptr} \cup {walk[i] : i \in 1..Len(walk)}}

----------------------------------------------------------------------------
(* Trimming *)

\* The loop of trim_to_current_stack_frame(): iteration k (from 0) runs while both
\* vectors still hold more than k elements, breaks when the backs
\* this[Len(this) - k] and current[Len(current) - k] differ, and pops both otherwise.
\* LoopStop is the first k in lo..hi at which the loop breaks (hi + 1: at none); the
\* range is scanned in order, split in halves to keep TLC's evaluation shallow.
RECURSIVE LoopStop(_, _, _, _)
LoopStop(this, current, lo, hi) ==
    IF lo > hi THEN lo
    ELSE IF lo = hi
         THEN (IF this[Len(this) - lo] # current[Len(current) - lo] THEN lo ELSE lo + 1)
    ELSE LET mid == (lo + hi) \div 2
             left == LoopStop(this, current, lo, mid)
         IN  IF left <= mid THEN left ELSE LoopStop(this, current, mid + 1, hi)

\* Variants of the loop that plausible slips would give: without the break on a
\* mismatch; an `if` in place of the `while`; comparing the fronts (most recent
\* ends) instead of the backs.
TrimLoop_NoBreak(this, current) ==
    SubSeq(this, 1, Len(this) - Min(Len(this), Len(current)))

TrimLoop_Once(this, current) ==
    IF current # <<>> /\ this # <<>> /\ Last(this) = Last(current)
    THEN PopBack(this)
    ELSE this

TrimLoop_Front(this, current) ==
    LET n == Min(Len(this), Len(current))
        k == CHOOSE j \in 0..n :
                /\ \A i \in 1..j : this[i] = current[i]
                /\ j = n \/ this[j + 1] # current[j + 1]
    IN  SubSeq(this, 1, Len(this) - k)

\* the receiver after the loop: one pop_back per iteration that did not break
TrimLoop(this, current) ==
    SubSeq(this, 1, Len(this) - LoopStop(this, current, 0, Min(Len(this), Len(current)) - 1))

----------------------------------------------------------------------------
(* Spec: one StackAnalyzer in a program that calls and returns *)

\* the frames on the stack while analyze() runs, called by the running function
\* or (inTrim) by trim_to_current_stack_frame()
TrueStack(inTrim) ==
    <<AnalyzePC>> \o (IF inTrim THEN <<TrimPC>> ELSE <<>>) \o callstack

Init ==
    /\ backend \in Backends
    /\ callstack \in {<<a>> : a \in UserAddr}
    /\ stack_addrs = <<>>
    /\ fault = "none"
    /\ op = "construct"
    /\ pre = <<>>
    /\ cur = <<>>
    /\ raw = <<>>
    /\ buffer = <<>>
    /\ calls = <<>>

\* a new StackAnalyzer replaces the receiver
Construct ==
    /\ fault = "none"
    /\ stack_addrs' = <<>>
    /\ op' = "construct"
    /\ pre' = <<>> /\ cur' = <<>> /\ raw' = <<>>
    /\ UNCHANGED <<backend, callstack, fault, buffer, calls>>

Call(a) ==
    /\ fault = "none"
    /\ Len(callstack) < MaxDepth
    /\ callstack' = <<a>> \o callstack
    /\ op' = "call"
    /\ pre' = <<>> /\ cur' = <<>> /\ raw' = <<>>
    /\ UNCHANGED <<backend, stack_addrs, fault, buffer, calls>>

Return ==
    /\ fault = "none"
    /\ Len(callstack) > 1
    /\ callstack' = Tail(callstack)
    /\ op' = "return"
    /\ pre' = <<>> /\ cur' = <<>> /\ raw' = <<>>
    /\ UNCHANGED <<backend, stack_addrs, fault, buffer, calls>>

\* analyze() on the receiver when the unwinder walks the frames `walk`
CaptureInto(walk) ==
    LET r == AnalyzeOn(backend, stack_addrs, walk)
    IN  /\ raw' = walk
        /\ \/ /\ ~r.ub
              /\ stack_addrs' = r.addrs
              /\ fault' = "none"
           \/ /\ r.ub
              /\ fault' = "abort"
              /\ stack_addrs' = r.addrs
           \/ /\ r.ub
              /\ fault' = "corrupt"
              /\ stack_addrs' \in Garbage(walk)
        /\ op' = "analyze"
        /\ pre' = stack_addrs
        /\ cur' = <<>>

\* trim_to_current_stack_frame() on the receiver when the unwinder walks `walk`
\* inside current.analyze()
TrimAgainst(walk) ==
    LET current == AnalyzeOn(backend, <<>>, walk)
    IN  /\ raw' = walk
        /\ \/ /\ ~current.ub
              /\ cur' = current.addrs
              /\ stack_addrs' = TrimLoop(stack_addrs, current.addrs)
              /\ fault' = "none"
           \/ /\ current.ub
              /\ fault' = "abort"
              /\ cur' = <<>>
              /\ stack_addrs' = stack_addrs
           \/ /\ current.ub
              /\ fault' = "corrupt"
              /\ \E g \in Garbage(walk) :
                    /\ cur' = g
                    /\ stack_addrs' = TrimLoop(stack_addrs, g)
        /\ op' = "trim"
        /\ pre' = stack_addrs

\* this->analyze(); the unwinder walks the n most recent frames
Analyze(n) ==
    /\ fault = "none"
    /\ n <= Len(TrueStack(FALSE))
    /\ Len(stack_addrs) + Len(callstack) <= MaxStack
    /\ CaptureInto(SubSeq(TrueStack(FALSE), 1, n))
    /\ UNCHANGED <<backend, callstack, buffer, calls>>

\* this->trim_to_current_stack_frame(); the unwinder walks the n most recent frames
Trim(n) ==
    /\ fault = "none"
    /\ n <= Len(TrueStack(TRUE))
    /\ TrimAgainst(SubSeq(TrueStack(TRUE), 1, n))
    /\ UNCHANGED <<backend, callstack, buffer, calls>>

Next ==
    \/ Construct
    \/ \E a \in UserAddr : Call(a)
    \/ Return
    \/ \E n \in 0..(MaxDepth + 1) : Analyze(n)
    \/ \E n \in 0..(MaxDepth + 2) : Trim(n)

Spec == Init /\ [][Next]_vars

----------------------------------------------------------------------------
(* SpecDeep: analyze() and then trim_to_current_stack_frame() at the same call *)
(* site, on a call stack of which the unwinder returns d frames               *)

\* frame 1 is analyze() itself, frames 2..d its callers
FullStack(d) == [i \in 1..d |-> IF i = 1 THEN AnalyzePC ELSE i - 1]

\* the same stack seen from current.analyze() inside trim_to_current_stack_frame():
\* the caller's own frame holds the return address of that second call, which is
\* the one of the analyze() call (same) or another address of the same function
TrimWalk(walk, same) ==
    IF walk = <<>> THEN <<>>
    ELSE IF Len(walk) = 1 THEN <<AnalyzePC, TrimPC>>
    ELSE <<AnalyzePC, TrimPC, IF same THEN walk[2] ELSE OtherSitePC>>
            \o SubSeq(walk, 3, Len(walk))

InitDeep ==
    /\ backend \in Backends
    /\ raw \in {FullStack(d) : d \in 0..MaxUnwindDepth}
    /\ callstack = (IF raw = <<>> THEN <<>> ELSE Tail(raw))
    /\ stack_addrs = <<>>
    /\ fault = "none"
    /\ op = "start"
    /\ pre = <<>>
    /\ cur = <<>>
    /\ buffer = (IF backend = "execinfo" THEN NewBuffer ELSE <<>>)
    /\ calls = <<>>

\* libbacktrace and Windows: analyze() has no loop of its own
DeepAnalyze ==
    /\ op = "start"
    /\ backend # "execinfo"
    /\ CaptureInto(raw)
    /\ UNCHANGED <<backend, callstack, buffer, calls>>

\* execinfo: one iteration of the buffer-doubling loop
DeepGrow ==
    /\ backend = "execinfo"
    /\ op \in {"start", "grow"}
    /\ LET s == GrowStep(buffer, raw)
       IN  /\ buffer' = s.buffer
           /\ op' = IF s.done THEN "grown" ELSE "grow"
    /\ UNCHANGED <<backend, callstack, stack_addrs, fault, pre, cur, raw, calls>>

\* execinfo: store the buffer, cut off at the front and back
DeepStore ==
    /\ backend = "execinfo"
    /\ op = "grown"
    /\ LET r == StoreResult(stack_addrs, buffer)
       IN  \/ /\ ~r.ub
              /\ stack_addrs' = r.addrs
              /\ fault' = "none"
           \/ /\ r.ub
              /\ fault' = "abort"
              /\ stack_addrs' = r.addrs
           \/ /\ r.ub
              /\ fault' = "corrupt"
              /\ stack_addrs' \in Garbage(raw)
    /\ op' = "analyze"
    /\ pre' = stack_addrs
    /\ buffer' = <<>>
    /\ UNCHANGED <<backend, callstack, cur, raw, calls>>

DeepTrim(same) ==
    /\ op = "analyze"
    /\ fault = "none"
    /\ TrimAgainst(TrimWalk(raw, same))
    /\ UNCHANGED <<backend, callstack, buffer, calls>>

NextDeep == DeepAnalyze \/ DeepGrow \/ DeepStore \/ \E same \in BOOLEAN : DeepTrim(same)

SpecDeep == InitDeep /\ [][NextDeep]_vars

----------------------------------------------------------------------------
(* Resolution *)

\* a null `const char *`
NoName == "<null>"

\* util::demangle(name): the demangled name, the name itself if it is not mangled
demangle(name) ==
    CASE name = "_Z1fv" -> "f()"
      [] name = "_Z1gv" -> "g()"
      [] name = "_Z1hv" -> "h()"
      [] name = "_Z1kv" -> "k()"
      [] OTHER -> name

\* util::symbol_name(addr, false, true): the name of the symbol the address lies
\* in, the address in text if there is none
symbol_name(pc) ==
    CASE pc = 1 -> "f()"
      [] pc = 2 -> "g()"
      [] pc = 3 -> "h()"
      [] pc = 4 -> "main"
      [] pc = 5 -> "h()"
      [] pc = 6 -> "0x6"
      [] pc = 7 -> "0x7"
      [] OTHER -> "0x8"

\* The addresses of SpecResolve, one per way libbacktrace can answer
\* backtrace_pcinfo: 1 one record; 2 two records (an inlined call); 3 a record
\* without function name; 4 a record without file name; 5, 6, 7 no debug info
\* (error -1); 8 another error.
ResolveAddr == 1..8

\* what backtrace_pcinfo does for pc: the error it reports (0: none), else the
\* (filename, lineno, function) of each call of the callback
DebugInfo(pc) ==
    CASE pc = 1 -> [errno |-> 0, frames |-> <<[filename |-> "a.cpp", lineno |-> 10, function |-> "_Z1fv"]>>]
      [] pc = 2 -> [errno |-> 0, frames |-> <<[filename |-> "a.h", lineno |-> 3, function |-> "_Z1kv"],
                                              [filename |-> "a.cpp", lineno |-> 20, function |-> "_Z1gv"]>>]
      [] pc = 3 -> [errno |-> 0, frames |-> <<[filename |-> NoName, lineno |-> 0, function |-> NoName]>>]
      [] pc = 4 -> [errno |-> 0, frames |-> <<[filename |-> NoName, lineno |-> 0, function |-> "main"]>>]
      [] pc \in {5, 6, 7} -> [errno |-> -1, frames |-> <<>>]
      [] OTHER -> [errno |-> 2, frames |-> <<>>]

\* what backtrace_syminfo does for pc: it calls the callback with the symbol's name
\* (found; the name is null when no symbol covers pc), or reports an error (no
\* symbol table)
SymInfo(pc) ==
    CASE pc = 5 -> [found |-> TRUE, symname |-> "_Z1hv", errno |-> 0]
      [] pc = 7 -> [found |-> FALSE, symname |-> NoName, errno |-> -1]
      [] pc = 8 -> [found |-> TRUE, symname |-> "_Z1gv", errno |-> 0]
      [] OTHER -> [found |-> TRUE, symname |-> NoName, errno |-> 0]

\* data: info_cb_data_t (symbols, pc), with the log the error callback writes to
NewInfoCbData == [symbols |-> <<>>, pc |-> nullptr, log |-> <<>>]

backtrace_error_callback(data, errorno) ==
    [data EXCEPT !.log = Append(@, errorno)]

backtrace_syminfo_callback(data, pc, symname) ==
    [data EXCEPT !.symbols = Append(@,
        [filename |-> "",
         lineno |-> 0,
         functionname |-> IF symname = NoName THEN "" ELSE demangle(symname),
         pc |-> pc])]

backtrace_pcinfo_callback(data, pc, filename, lineno, function) ==
    IF function = NoName
    THEN [data EXCEPT !.symbols = Append(@,
            [filename |-> "",
             lineno |-> 0,
             functionname |-> symbol_name(pc),
             pc |-> pc])]
    ELSE [data EXCEPT !.symbols = Append(@,
            [filename |-> IF filename = NoName THEN "" ELSE filename,
             lineno |-> lineno,
             functionname |-> demangle(function),
             pc |-> pc])]

\* backtrace_syminfo(state, pc, backtrace_syminfo_callback, backtrace_error_callback, data)
backtrace_syminfo(data, pc) ==
    IF SymInfo(pc).found
    THEN backtrace_syminfo_callback(data, pc, SymInfo(pc).symname)
    ELSE backtrace_error_callback(data, SymInfo(pc).errno)

\* a slip: the error code is not looked at, every error is taken for `not found`
backtrace_pcinfo_error_callback_AnyError(data, errorno) ==
    backtrace_syminfo(data, data.pc)

backtrace_pcinfo_error_callback(data, errorno) ==
    IF errorno = -1
    THEN backtrace_syminfo(data, data.pc)
    ELSE backtrace_error_callback(data, errorno)

RECURSIVE PcInfoFrames(_, _, _)
PcInfoFrames(data, pc, frames) ==
    IF frames = <<>> THEN data
    ELSE PcInfoFrames(
            backtrace_pcinfo_callback(data, pc, Head(frames).filename,
                                      Head(frames).lineno, Head(frames).function),
            pc, Tail(frames))

\* backtrace_pcinfo(state, pc, backtrace_pcinfo_callback, backtrace_pcinfo_error_callback, data)
backtrace_pcinfo(data, pc) ==
    IF DebugInfo(pc).errno # 0
    THEN backtrace_pcinfo_error_callback(data, DebugInfo(pc).errno)
    ELSE PcInfoFrames(data, pc, DebugInfo(pc).frames)

\* for (void *pc : this->stack_addrs) { info_cb_data.pc = pc; backtrace_pcinfo(...); }
RECURSIVE ResolveAll(_, _)
ResolveAll(data, addrs) ==
    IF addrs = <<>> THEN data
    ELSE ResolveAll(backtrace_pcinfo([data EXCEPT !.pc = Head(addrs)], Head(addrs)),
                    Tail(addrs))

\* for (size_t idx = v.size(); idx-- > 0;) cb(&v[idx]);
RECURSIVE EmitBackwards(_, _)
EmitBackwards(v, idx) ==
    IF idx > 0 THEN <<v[idx]>> \o EmitBackwards(v, idx - 1) ELSE <<>>

\* a slip: the addresses are walked backwards instead of the resolved records
GetSymbolsBacktrace_ReverseAddrs(addrs, reversed) ==
    LET data == ResolveAll(NewInfoCbData, IF reversed THEN Reverse(addrs) ELSE addrs)
    IN  [delivered |-> data.symbols, log |-> data.log]

\* get_symbols of the libbacktrace backend: the records handed to cb, in order
GetSymbolsBacktrace(addrs, reversed) ==
    LET data == ResolveAll(NewInfoCbData, addrs)
    IN  [delivered |-> IF reversed
                       THEN EmitBackwards(data.symbols, Len(data.symbols))
                       ELSE data.symbols,
         log |-> data.log]

\* the symbol get_symbols of the fallback backends hands to cb for pc
FallbackSymbol(pc) ==
    [filename |-> "", lineno |-> 0, functionname |-> symbol_name(pc), pc |-> pc]

RECURSIVE FallbackBackwards(_, _)
FallbackBackwards(addrs, idx) ==
    IF idx > 0 THEN <<FallbackSymbol(addrs[idx])>> \o FallbackBackwards(addrs, idx - 1)
    ELSE <<>>

RECURSIVE FallbackForwards(_)
FallbackForwards(addrs) ==
    IF addrs = <<>> THEN <<>>
    ELSE <<FallbackSymbol(Head(addrs))>> \o FallbackForwards(Tail(addrs))

\* a slip: the backwards loop starts at size() - 1 and misses the last address
GetSymbolsFallback_MissesLast(addrs, reversed) ==
    [delivered |-> IF reversed THEN FallbackBackwards(addrs, Len(addrs) - 1)
                   ELSE FallbackForwards(addrs),
     log |-> <<>>]

\* get_symbols of the fallback backends: the records handed to cb, in order
GetSymbolsFallback(addrs, reversed) ==
    [delivered |-> IF reversed THEN FallbackBackwards(addrs, Len(addrs))
                   ELSE FallbackForwards(addrs),
     log |-> <<>>]

GetSymbolsOn(bk, addrs, reversed) ==
    IF bk = "libbacktrace"
    THEN GetSymbolsBacktrace(addrs, reversed)
    ELSE GetSymbolsFallback(addrs, reversed)

----------------------------------------------------------------------------
(* SpecResolve: get_symbols, called again and again on a captured stack *)

BoundedSeq(S, n) == UNION {[1..k -> S] : k \in 0..n}

InitResolve ==
    /\ backend \in Backends
    /\ stack_addrs \in BoundedSeq(ResolveAddr, MaxResolveLen)
    /\ callstack = <<>>
    /\ fault = "none"
    /\ op = "captured"
    /\ pre = <<>>
    /\ cur = <<>>
    /\ raw = <<>>
    /\ buffer = <<>>
    /\ calls = <<>>

\* this->get_symbols(cb, reversed), cb recording what it is handed; calls keeps
\* this call and the one before
GetSymbols(reversed) ==
    /\ LET r == GetSymbolsOn(backend, stack_addrs, reversed)
       IN  calls' = <<[reversed |-> reversed, delivered |-> r.delivered, log |-> r.log]>>
                       \o SubSeq(calls, 1, Min(1, Len(calls)))
    /\ op' = "get_symbols"
    /\ pre' = stack_addrs
    /\ UNCHANGED <<backend, callstack, stack_addrs, fault, cur, raw, buffer>>

NextResolve == \E reversed \in BOOLEAN : GetSymbols(reversed)

SpecResolve == InitResolve /\ [][NextResolve]_vars

----------------------------------------------------------------------------
(* Properties of capture and trimming *)

\* the number of back-aligned equal addresses of A and B before the first mismatch
CommonSuffixLen(A, B) ==
    LET n == Min(Len(A), Len(B))
    IN  CHOOSE k \in 0..n :
            /\ \A i \in 0..(k - 1) : A[Len(A) - i] = B[Len(B) - i]
            /\ k = n \/ A[Len(A) - k] # B[Len(B) - k]

\* the back n addresses of A equal the back n addresses of B, position by position
BackEqual(A, B, n) ==
    /\ Len(A) >= n
    /\ Len(B) >= n
    /\ \A i \in 0..(n - 1) : A[Len(A) - i] = B[Len(B) - i]

\* C1: trim_to_current_stack_frame() leaves the receiver A without exactly the
\* longest common suffix of A and the fresh capture B: its length is Len(A) minus
\* the number of back-aligned equal addresses before the first mismatch, and what
\* remains is the prefix of A, unchanged and in order.
C1_TrimRemovesCommonSuffix ==
    (op = "trim" /\ fault = "none") =>
        /\ Len(stack_addrs) = Len(pre) - CommonSuffixLen(pre, cur)
        /\ \A i \in 1..Len(stack_addrs) : stack_addrs[i] = pre[i]

\* C1 witness: a trim that removed a common suffix of two addresses and stopped at
\* a mismatch, with something left of both stacks
C1_Witness ==
    /\ op = "trim" /\ fault = "none"
    /\ CommonSuffixLen(pre, cur) = 2
    /\ Len(pre) > 2 /\ Len(cur) > 2
    /\ Len(stack_addrs) = Len(pre) - 2

\* C2 as stated: when the back 3 addresses of A equal the back 3 addresses of B, the
\* trim leaves A with length Len(A) - 3.
C2_Original ==
    (op = "trim" /\ fault = "none" /\ BackEqual(pre, cur, 3)) =>
        Len(stack_addrs) = Len(pre) - 3

\* C2 amended: when the back 3 addresses of A equal the back 3 addresses of B, the
\* trim removes at least those 3 entries, and exactly 3 if and only if the stacks do
\* not also agree on a 4th address from the back (one of them has only 3 entries,
\* or their 4th addresses from the back differ).
C2_TrimRemovesAtLeastThree ==
    (op = "trim" /\ fault = "none" /\ BackEqual(pre, cur, 3)) =>
        /\ Len(stack_addrs) <= Len(pre) - 3
        /\ (Len(stack_addrs) = Len(pre) - 3) <=> ~BackEqual(pre, cur, 4)

\* C2 witness: both stacks hold 4 addresses, agree on the back 3 and differ on the
\* 4th, and the trim removed exactly 3
C2_Witness ==
    /\ op = "trim" /\ fault = "none"
    /\ BackEqual(pre, cur, 3)
    /\ Len(pre) >= 4 /\ Len(cur) >= 4
    /\ Len(stack_addrs) = Len(pre) - 3

\* C3 as stated (SpecDeep): a trim at the call site of the capture leaves the
\* receiver strictly shorter, whatever the capture recorded.
C3_Original ==
    (op = "trim" /\ fault = "none") => Len(stack_addrs) < Len(pre)

\* C3 amended (SpecDeep): a trim at the call site of the capture leaves the receiver
\* strictly shorter whenever the capture recorded at least two addresses (the
\* caller's frame and one ancestor) and, in the Windows backend, the fresh capture
\* (one frame deeper) still fits the 64-entry buffer.
C3_SameSiteTrimShortens ==
    ( /\ op = "trim" /\ fault = "none"
      /\ Len(pre) >= 2
      /\ backend = "windows" => Len(raw) - base_skip_frames <= BufferSize ) =>
        Len(stack_addrs) < Len(pre)

\* C3 witness: a capture of more than 64 addresses, trimmed at its call site down to
\* the caller's frame
C3_Witness ==
    /\ op = "trim" /\ fault = "none"
    /\ Len(pre) > BufferSize
    /\ Len(stack_addrs) = 1

\* C5 as stated: after analyze() (the unwinder having walked the whole call stack)
\* the instance holds what a capture on a fresh instance records for that call
\* stack, whatever it held before.
C5_CaptureOverwrites ==
    (op = "analyze" /\ fault = "none" /\ raw = TrueStack(FALSE)) =>
        stack_addrs = AnalyzeOn(backend, <<>>, raw).addrs

\* C6 as stated: no capture, however few frames the unwinder returns, pops an
\* empty vector or reaches another error state.
C6_CaptureNeverFatal == fault = "none"

\* C10 as stated (SpecDeep): for every depth d the doubling loop ends with the
\* buffer holding all d frames, and the fresh instance then holds exactly frames
\* base_skip_frames .. d - skip_entry_frames - 1, most recent first.
C10_UnwindRecordsAllFrames ==
    backend = "execinfo" =>
        /\ op = "grown" => buffer = raw
        /\ op = "analyze" =>
              /\ fault = "none"
              /\ stack_addrs = SubSeq(raw, base_skip_frames + 1, Len(raw) - skip_entry_frames)

\* C10, for the depths that leave something to pop (d >= base_skip_frames +
\* skip_entry_frames): holds, also at d = 64 and d = 128
C10_FromTwoFrames ==
    (backend = "execinfo" /\ Len(raw) >= base_skip_frames + skip_entry_frames) =>
        /\ op = "grown" => buffer = raw
        /\ op = "analyze" =>
              /\ fault = "none"
              /\ stack_addrs = SubSeq(raw, base_skip_frames + 1, Len(raw) - skip_entry_frames)

----------------------------------------------------------------------------
(* Properties of resolution (SpecResolve) *)

\* the library reports an error other than `not found` for pc
HardError(pc) == DebugInfo(pc).errno \notin {0, -1}

\* the library reports `not found` (error -1) for pc
NotFound(pc) == DebugInfo(pc).errno = -1

\* C4: what get_symbols delivers with reversed = true is the reverse of what it
\* delivers with reversed = false, in the fallback backends and in the libbacktrace
\* backend (also when an address gives several records, or none).
C4_OrderingSymmetry ==
    (Len(calls) = 2 /\ calls[1].reversed # calls[2].reversed) =>
        calls[1].delivered = Reverse(calls[2].delivered)

\* C4 witness: the libbacktrace backend, a stack with an address of two records
\* and one of none, resolved in both orders
C4_Witness ==
    /\ backend = "libbacktrace"
    /\ Len(calls) = 2 /\ calls[1].reversed # calls[2].reversed
    /\ \E i, j \in 1..Len(stack_addrs) : stack_addrs[i] = 2 /\ stack_addrs[j] = 8
    /\ Len(calls[1].delivered) >= 3
    /\ calls[1].delivered # calls[2].delivered

\* C7 as stated: every address without line-level debug info (error -1) yields a
\* record with empty filename and line 0, named from the symbol table or, when
\* the symbol table gives no name or is not there, by symbol_name.
C7_NotFoundStillNamed ==
    (backend = "libbacktrace" /\ Len(calls) >= 1) =>
        \A i \in 1..Len(stack_addrs) :
            NotFound(stack_addrs[i]) =>
                \E j \in 1..Len(calls[1].delivered) :
                    calls[1].delivered[j] =
                        [filename |-> "",
                         lineno |-> 0,
                         functionname |->
                            IF SymInfo(stack_addrs[i]).found
                               /\ SymInfo(stack_addrs[i]).symname # NoName
                            THEN demangle(SymInfo(stack_addrs[i]).symname)
                            ELSE symbol_name(stack_addrs[i]),
                         pc |-> stack_addrs[i]]

\* C8: in the fallback backends get_symbols hands cb one record per address, in
\* the requested order, with empty filename, line 0, the address and its
\* symbol_name; it leaves stack_addrs as it was, and a second call in the same
\* order delivers the same records.
C8_FallbackOnePerAddress ==
    (backend # "libbacktrace" /\ Len(calls) >= 1) =>
        LET c == calls[1]
            order == IF c.reversed THEN Reverse(stack_addrs) ELSE stack_addrs
        IN  /\ stack_addrs = pre
            /\ Len(c.delivered) = Len(stack_addrs)
            /\ \A i \in 1..Len(c.delivered) :
                  /\ c.delivered[i].filename = ""
                  /\ c.delivered[i].lineno = 0
                  /\ c.delivered[i].pc = order[i]
                  /\ c.delivered[i].functionname = symbol_name(order[i])
            /\ (Len(calls) = 2 /\ calls[2].reversed = c.reversed) =>
                  calls[2].delivered = c.delivered

\* C8 witness: a fallback backend, three different addresses, resolved backwards
\* twice
C8_Witness ==
    /\ backend = "execinfo"
    /\ Len(calls) = 2 /\ calls[1].reversed /\ calls[2].reversed
    /\ Len(stack_addrs) = 3
    /\ Cardinality({stack_addrs[i] : i \in 1..3}) = 3
    /\ Len(calls[1].delivered) = 3

\* C9: in the libbacktrace backend an error other than `not found` is logged with
\* its code, gives no record for its address, and the call delivers exactly what
\* it delivers for the stack without the addresses of such errors.
C9_HardErrorSkipsOneAddress ==
    (backend = "libbacktrace" /\ Len(calls) >= 1) =>
        LET c == calls[1]
            hard == SelectSeq(stack_addrs, HardError)
            rest == SelectSeq(stack_addrs, LAMBDA pc : ~HardError(pc))
        IN  /\ SelectSeq(c.log, LAMBDA e : e # -1)
                  = [i \in 1..Len(hard) |-> DebugInfo(hard[i]).errno]
            /\ \A i \in 1..Len(c.delivered) : ~HardError(c.delivered[i].pc)
            /\ c.delivered = GetSymbolsBacktrace(rest, c.reversed).delivered

\* C9 witness: an address with such an error first, then two that resolve, and the
\* records of those two delivered
C9_Witness ==
    /\ backend = "libbacktrace"
    /\ Len(calls) >= 1 /\ ~calls[1].reversed
    /\ Len(stack_addrs) = 3
    /\ HardError(stack_addrs[1]) /\ stack_addrs[2] = 1 /\ stack_addrs[3] = 5
    /\ Len(calls[1].delivered) = 2
    /\ calls[1].delivered[2].pc = 5
    /\ calls[1].log = <<2>>

====
